---- MODULE Spec2Model ----
(***************************************************************************)
(* simpleenv.Load: binding of environment variables into the fields of a   *)
(* struct, driven by the `env:"KEY;clause;clause"` struct tags.            *)
(*                                                                         *)
(* Strings are sequences of one-character strings, so that strings.Split,  *)
(* strings.HasPrefix, strconv.Atoi, strconv.ParseFloat and friends are     *)
(* computed character by character as the Go code computes them.           *)
(***************************************************************************)
EXTENDS Integers, Sequences, FiniteSets, TLC

(***************************************************************************)
(* Bounds of the model.                                                    *)
(***************************************************************************)
MaxFields == 3      \* longest struct in the multi-field configurations
MaxClauses == 2     \* most clauses after the key in the generated tags
MaxValLen == 2      \* longest generated environment value over ValAlphabet

(***************************************************************************)
(* Characters and the string functions of the Go standard library that    *)
(* the package calls.                                                      *)
(***************************************************************************)
Digits == {"0", "1", "2", "3", "4", "5", "6", "7", "8", "9"}

DigitVal(c) ==
    CASE c = "0" -> 0 [] c = "1" -> 1 [] c = "2" -> 2 [] c = "3" -> 3
      [] c = "4" -> 4 [] c = "5" -> 5 [] c = "6" -> 6 [] c = "7" -> 7
      [] c = "8" -> 8 [] c = "9" -> 9

\* unicode.ToLower on the letters the model's values use
ToLower(c) ==
    CASE c = "A" -> "a" [] c = "H" -> "h" [] c = "T" -> "t" [] c = "P" -> "p"
      [] c = "S" -> "s" [] c = "N" -> "n" [] c = "F" -> "f" [] c = "U" -> "u"
      [] c = "R" -> "r" [] c = "L" -> "l" [] c = "K" -> "k" [] c = "X" -> "x"
      [] OTHER -> c

Letters == {"a", "b", "c", "f", "h", "l", "n", "o", "p", "r", "s", "t", "u", "x",
            "A", "H", "T", "P", "S", "N", "F", "U", "R", "L", "K", "X"}

LowerStr(s) == [k \in 1..Len(s) |-> ToLower(s[k])]

\* strings.EqualFold
EqualFold(s, t) == LowerStr(s) = LowerStr(t)

\* strings.HasPrefix
HasPrefix(s, p) == Len(s) >= Len(p) /\ SubSeq(s, 1, Len(p)) = p

\* strings.TrimPrefix
TrimPrefix(s, p) == IF HasPrefix(s, p) THEN SubSeq(s, Len(p) + 1, Len(s)) ELSE s

\* strings.Index for a one-character separator; 0 when absent
IndexOf(s, c) ==
    IF \E k \in 1..Len(s) : s[k] = c
    THEN CHOOSE k \in 1..Len(s) : s[k] = c /\ \A j \in 1..(k - 1) : s[j] # c
    ELSE 0

\* strings.Split(s, c): always at least one element, Split("", c) = [""]
RECURSIVE Split(_, _)
Split(s, c) ==
    LET k == IndexOf(s, c) IN
    IF k = 0 THEN << s >>
    ELSE << SubSeq(s, 1, k - 1) >> \o Split(SubSeq(s, k + 1, Len(s)), c)

\* slices.Contains
SlicesContains(list, x) == \E k \in 1..Len(list) : list[k] = x

\* strings.Contains (substring search), used by the literal-pattern regex model
ContainsSub(s, p) ==
    \E k \in 0..(Len(s) - Len(p)) : SubSeq(s, k + 1, k + Len(p)) = p

(***************************************************************************)
(* Numbers.  A float64 is kept as a decimal num / 10^scale (or NaN); the   *)
(* values of the model are short decimal literals, which float64 orders as *)
(* the decimals are ordered.                                               *)
(***************************************************************************)
RECURSIVE Pow10(_)
Pow10(n) == IF n = 0 THEN 1 ELSE 10 * Pow10(n - 1)

RECURSIVE DigitsVal(_)
DigitsVal(s) == IF s = << >> THEN 0
                ELSE 10 * DigitsVal(SubSeq(s, 1, Len(s) - 1)) + DigitVal(s[Len(s)])

AllDigits(s) == \A k \in 1..Len(s) : s[k] \in Digits

\* the sign prefix both strconv.Atoi and strconv.ParseFloat accept
HasSign(s) == Len(s) > 0 /\ s[1] \in {"+", "-"}
Unsigned(s) == IF HasSign(s) THEN Tail(s) ELSE s
SignOf(s) == IF Len(s) > 0 /\ s[1] = "-" THEN -1 ELSE 1

\* strconv.Atoi: optional sign, then one or more decimal digits
Atoi(s) ==
    LET u == Unsigned(s) IN
    IF u # << >> /\ AllDigits(u)
    THEN [ok |-> TRUE, n |-> SignOf(s) * DigitsVal(u)]
    ELSE [ok |-> FALSE, n |-> 0]

RECURSIVE Normalize(_)
Normalize(f) ==
    IF f.scale > 0 /\ f.num % 10 = 0
    THEN Normalize([f EXCEPT !.num = f.num \div 10, !.scale = f.scale - 1])
    ELSE f

FloatErr == [ok |-> FALSE, nan |-> FALSE, num |-> 0, scale |-> 0]

\* strconv.ParseFloat(s, 64) on the model's alphabet: "NaN" in any case
\* (unsigned), or [+-] digits [. digits] with a digit on at least one side
ParseFloat(s) ==
    LET u == Unsigned(s)
        d == IndexOf(u, ".")
        ip == IF d = 0 THEN u ELSE SubSeq(u, 1, d - 1)
        fp == IF d = 0 THEN << >> ELSE SubSeq(u, d + 1, Len(u))
    IN
    IF LowerStr(s) = << "n", "a", "n" >>
    THEN [ok |-> TRUE, nan |-> TRUE, num |-> 0, scale |-> 0]
    ELSE IF AllDigits(ip) /\ AllDigits(fp) /\ Len(ip) + Len(fp) > 0
    THEN Normalize([ok |-> TRUE, nan |-> FALSE,
                    num |-> SignOf(s) * (DigitsVal(ip) * Pow10(Len(fp)) + DigitsVal(fp)),
                    scale |-> Len(fp)])
    ELSE FloatErr

\* float64 `a < b`: false as soon as one side is NaN
FloatLess(a, b) ==
    /\ ~a.nan
    /\ ~b.nan
    /\ a.num * Pow10(b.scale) < b.num * Pow10(a.scale)

\* float64 `a > b`
FloatGreater(a, b) == FloatLess(b, a)

(***************************************************************************)
(* Literals of the tag grammar.                                            *)
(***************************************************************************)
optional == << "o", "p", "t", "i", "o", "n", "a", "l" >>
oneofPrefix == << "o", "n", "e", "o", "f", "=" >>
minPrefix == << "m", "i", "n", "=" >>
maxPrefix == << "m", "a", "x", "=" >>
regexPrefix == << "r", "e", "g", "e", "x", "=" >>
formatPrefix == << "f", "o", "r", "m", "a", "t", "=" >>
URL == << "U", "R", "L" >>
http == << "h", "t", "t", "p" >>
https == << "h", "t", "t", "p", "s" >>

(***************************************************************************)
(* Failures.  The package returns free-text errors; each message is named  *)
(* by the failure kind it stands for.                                      *)
(***************************************************************************)
NoErr == "nil"
MalformedAnnotation == "MalformedAnnotation"          \* "failed to find env var name, missing struct tag?"
RequiredValueMissing == "RequiredValueMissing"        \* "failed to find value for ENV[..], which is required"
NotInAllowedSet == "NotInAllowedSet"                  \* "failed to match env var .. must be one of [..]"
InvalidConstraintDefinition == "InvalidConstraintDefinition" \* "failed to parse min/max value for .."
BelowMinimum == "BelowMinimum"                        \* "failed to parse float value in env var", "failed min value constraint"
AboveMaximum == "AboveMaximum"                        \* "failed to parse float value in envvar", "failed max value constraint"
PatternMismatch == "PatternMismatch"                  \* "failed regex match for env var .."
InvalidFormat == "InvalidFormat"                      \* "failed URL format for env var .."
CoercionError == "CoercionError"                      \* "failed to cast/parse env variable .. value to int/float64"
UnsupportedType == "UnsupportedType"                  \* "failed to parse env variable .. into struct field"
AssignmentError == "AssignmentError"                  \* "failed to assign struct field value, .."

\* outcome of one pass through the switch of validateConstraints that is
\* neither an error nor a fall-through to the next tag option: `return nil`
ReturnNil == "return nil"

(***************************************************************************)
(* matchRegex.  The patterns of the model are literal letters and digits   *)
(* (regexp.MatchString then searches the pattern anywhere in the string)   *)
(* or contain an unclosed "(", which regexp.Compile rejects.               *)
(***************************************************************************)
matchRegex(pattern, str) ==
    IF \E k \in 1..Len(pattern) : pattern[k] = "("
    THEN [matched |-> FALSE, err |-> TRUE]
    ELSE IF ~ContainsSub(str, pattern)
    THEN [matched |-> FALSE, err |-> TRUE]
    ELSE [matched |-> TRUE, err |-> FALSE]

(***************************************************************************)
(* isValidURL.  url.Parse on the model's values: the scheme is the run of  *)
(* letters (digits, "+", "-", "." after the first) before the first ":";   *)
(* the host is what follows "//" up to the next "/".                       *)
(***************************************************************************)
SchemeEnd(s) ==
    LET stop == { k \in 1..Len(s) :
                    ~(s[k] \in Letters \/ (k > 1 /\ s[k] \in Digits \cup {"+", "-", "."})) }
    IN IF stop = {} THEN 0
       ELSE LET k == CHOOSE m \in stop : \A j \in stop : m <= j
            IN IF s[k] = ":" /\ k > 1 THEN k ELSE 0

urlScheme(s) == IF SchemeEnd(s) = 0 THEN << >> ELSE LowerStr(SubSeq(s, 1, SchemeEnd(s) - 1))

urlHost(s) ==
    LET rest == SubSeq(s, SchemeEnd(s) + 1, Len(s))
        auth == SubSeq(rest, 3, Len(rest))
        slash == IndexOf(auth, "/")
    IN IF SchemeEnd(s) # 0 /\ HasPrefix(rest, << "/", "/" >>)
       THEN (IF slash = 0 THEN auth ELSE SubSeq(auth, 1, slash - 1))
       ELSE << >>

isValidURL(s) ==
    /\ urlScheme(s) # << >>
    /\ urlHost(s) # << >>
    /\ \E scheme \in {http, https} : EqualFold(urlScheme(s), scheme)

(***************************************************************************)
(* The process environment and the struct being loaded.                    *)
(***************************************************************************)
\* os.Getenv: the empty string for a variable that is not set
Getenv(environ, key) == IF key \in DOMAIN environ THEN environ[key] ELSE << >>

Kinds == {"string", "int", "float64", "bool"}

StringValue(s) == [kind |-> "string", str |-> s, n |-> 0, f |-> FloatErr]
IntValue(n) == [kind |-> "int", str |-> << >>, n |-> n, f |-> FloatErr]
FloatValue(f) == [kind |-> "float64", str |-> << >>, n |-> 0, f |-> f]
InvalidValue == [kind |-> "invalid", str |-> << >>, n |-> 0, f |-> FloatErr]

\* the zero value of a struct field: Env{} before Load
ZeroValue(kind) ==
    CASE kind = "string" -> StringValue(<< >>)
      [] kind = "int" -> IntValue(0)
      [] kind = "float64" -> FloatValue([ok |-> TRUE, nan |-> FALSE, num |-> 0, scale |-> 0])
      [] OTHER -> [kind |-> kind, str |-> << >>, n |-> 0, f |-> FloatErr]

(***************************************************************************)
(* parseValueFromEnv                                                       *)
(***************************************************************************)
parseValueFromEnv(fieldType, environ) ==
    LET tagOptions == Split(fieldType.tag, ";")
        envKey == tagOptions[1]
        envValue == Getenv(environ, envKey)
    IN
    IF Len(tagOptions) < 1
    THEN [err |-> MalformedAnnotation, val |-> InvalidValue, looked |-> << >>]
    ELSE CASE fieldType.kind = "string" ->
                [err |-> NoErr, val |-> StringValue(envValue), looked |-> << envKey >>]
           [] fieldType.kind = "int" ->
                IF ~Atoi(envValue).ok
                THEN [err |-> CoercionError, val |-> InvalidValue, looked |-> << envKey >>]
                ELSE [err |-> NoErr, val |-> IntValue(Atoi(envValue).n), looked |-> << envKey >>]
           [] fieldType.kind = "float64" ->
                IF ~ParseFloat(envValue).ok
                THEN [err |-> CoercionError, val |-> InvalidValue, looked |-> << envKey >>]
                ELSE [err |-> NoErr, val |-> FloatValue(ParseFloat(envValue)), looked |-> << envKey >>]
           [] OTHER ->
                [err |-> UnsupportedType, val |-> InvalidValue, looked |-> << envKey >>]

(***************************************************************************)
(* validateConstraints                                                     *)
(***************************************************************************)
\* a bug the oneof test could have: strings.Contains on the unsplit list
oneofContains_Substring(strOpts, envValue) == ContainsSub(strOpts, envValue)

\* slices.Contains(strings.Split(strOpts, ","), envValue)
oneofContains(strOpts, envValue) == SlicesContains(Split(strOpts, ","), envValue)

\* the switch in the loop body, for one tag option
constraintSwitch(constraint, envValue) ==
    CASE HasPrefix(constraint, oneofPrefix) ->
            IF ~oneofContains(TrimPrefix(constraint, oneofPrefix), envValue)
            THEN NotInAllowedSet ELSE NoErr
      [] HasPrefix(constraint, minPrefix) ->
            LET min == ParseFloat(TrimPrefix(constraint, minPrefix))
                fieldValue == ParseFloat(envValue)
            IN IF ~min.ok THEN InvalidConstraintDefinition
               ELSE IF ~fieldValue.ok THEN BelowMinimum
               ELSE IF FloatLess(fieldValue, min) THEN BelowMinimum
               ELSE NoErr
      [] HasPrefix(constraint, maxPrefix) ->
            LET max == ParseFloat(TrimPrefix(constraint, maxPrefix))
                fieldValue == ParseFloat(envValue)
            IN IF ~max.ok THEN InvalidConstraintDefinition
               ELSE IF ~fieldValue.ok THEN AboveMaximum
               ELSE IF FloatGreater(fieldValue, max) THEN AboveMaximum
               ELSE NoErr
      [] HasPrefix(constraint, regexPrefix) ->
            IF matchRegex(TrimPrefix(constraint, regexPrefix), envValue).err
            THEN PatternMismatch ELSE NoErr
      [] HasPrefix(constraint, formatPrefix) ->
            IF TrimPrefix(constraint, formatPrefix) # URL THEN ReturnNil
            ELSE IF ~isValidURL(envValue) THEN InvalidFormat
            ELSE NoErr
      [] OTHER -> NoErr

\* the presence test at the head of the loop body
valueRequired(tagOptions, envValue) ==
    envValue = << >> /\ ~SlicesContains(tagOptions, optional)

\* a bug the loop could have: after a failing tag option it goes on, and
\* the failure of the last failing option is the one returned
RECURSIVE constraintLoop_LastError(_, _, _)
constraintLoop_LastError(tagOptions, envValue, k) ==
    IF k > Len(tagOptions) THEN [err |-> NoErr, evaluated |-> k - 1]
    ELSE IF valueRequired(tagOptions, envValue)
    THEN [err |-> RequiredValueMissing, evaluated |-> k - 1]
    ELSE LET r == constraintSwitch(tagOptions[k], envValue)
             rest == constraintLoop_LastError(tagOptions, envValue, k + 1)
         IN
         IF r = NoErr THEN rest
         ELSE IF r = ReturnNil THEN [err |-> NoErr, evaluated |-> k]
         ELSE IF rest.err # NoErr THEN rest
         ELSE [err |-> r, evaluated |-> rest.evaluated]

\* the loop `for _, constraint := range tagOptions`, from index k on;
\* evaluated is the number of tag options whose switch has run
RECURSIVE constraintLoop(_, _, _)
constraintLoop(tagOptions, envValue, k) ==
    IF k > Len(tagOptions) THEN [err |-> NoErr, evaluated |-> k - 1]
    ELSE IF valueRequired(tagOptions, envValue)
    THEN [err |-> RequiredValueMissing, evaluated |-> k - 1]
    ELSE LET r == constraintSwitch(tagOptions[k], envValue) IN
         IF r = NoErr THEN constraintLoop(tagOptions, envValue, k + 1)
         ELSE IF r = ReturnNil THEN [err |-> NoErr, evaluated |-> k]
         ELSE [err |-> r, evaluated |-> k]

validateConstraints(fieldType, environ) ==
    LET tagOptions == Split(fieldType.tag, ";")
        envKey == tagOptions[1]
        envValue == Getenv(environ, envKey)
    IN
    IF Len(tagOptions) < 1
    THEN [err |-> MalformedAnnotation, evaluated |-> 0, looked |-> << >>]
    ELSE [err |-> constraintLoop(tagOptions, envValue, 1).err,
          evaluated |-> constraintLoop(tagOptions, envValue, 1).evaluated,
          looked |-> << envKey >>]

(***************************************************************************)
(* assignFieldValue: field.Set(val) when the field is settable and of the  *)
(* value's type.                                                           *)
(***************************************************************************)
assignFieldValue(fieldType, val) ==
    IF ~fieldType.settable THEN AssignmentError
    ELSE IF fieldType.kind # val.kind THEN AssignmentError
    ELSE NoErr

(***************************************************************************)
(* Inputs: struct tags, environment values and structs.                    *)
(***************************************************************************)
K == << "K" >>
J == << "J" >>
EnvNames == {K, J, optional}

RECURSIVE Join(_, _)
\* the tag made of a key and its clauses: key;clause;clause
Join(key, clauses) ==
    IF clauses = << >> THEN key
    ELSE Join(key \o << ";" >> \o Head(clauses), Tail(clauses))

oneof_a_ab == oneofPrefix \o << "a", ",", "a", "b" >>
min_1 == minPrefix \o << "1" >>
min_5 == minPrefix \o << "5" >>
max_5 == maxPrefix \o << "5" >>
regex_a == regexPrefix \o << "a" >>
regex_bad == regexPrefix \o << "(" >>
format_URL == formatPrefix \o URL
format_x == formatPrefix \o << "x" >>
unknownClause == << "f", "o", "o" >>

Clauses == {optional, oneof_a_ab, min_1, max_5, regex_a, regex_bad,
            format_URL, format_x, unknownClause}

ClauseSeqs == UNION { [1..n -> Clauses] : n \in 0..MaxClauses }

\* a struct field: its kind, its env tag and whether reflect can set it.
\* key and clauses are the segments the tag was written from; the package
\* reads the tag only.
Decl(kind, key, clauses, settable) ==
    [kind |-> kind, tag |-> Join(key, clauses), settable |-> settable,
     key |-> key, clauses |-> clauses]

\* tags whose first segment is not a plain key, and the tags of the examples
SpecialSegments ==
    { << << >> >>, << << >>, optional >>, << << >>, min_1 >>,
      << optional >>, << optional, min_1 >>,
      << min_1 >>, << min_1, optional >>, << oneof_a_ab, optional >>,
      << K, min_5 >>, << K, min_5, oneof_a_ab >>, << K, max_5, min_5 >> }

Segments == { << K >> \o cs : cs \in ClauseSeqs } \cup SpecialSegments

ValAlphabet == {"a", "b", "A"}
GeneratedValues == UNION { [1..n -> ValAlphabet] : n \in 0..MaxValLen }
NumericValues ==
    { << "0" >>, << "1" >>, << "3" >>, << "5" >>, << "5", ".", "0" >>,
      << "4", ".", "9", "9", "9" >>, << "1", "0" >>, << "-", "7" >>,
      << "0", ".", "5" >>, << "N", "a", "N" >> }
UrlValues ==
    { << "h", "t", "t", "p", ":", "/", "/", "h" >>,
      << "H", "T", "T", "P", "S", ":", "/", "/", "h" >>,
      << "f", "t", "p", ":", "/", "/", "h" >>,
      << "h", "t", "t", "p", ":", "/", "/" >> }
Values == GeneratedValues \cup NumericValues \cup UrlValues

\* a struct of one field, over every tag and value
SingleFieldStructs ==
    { << Decl(k, Head(sg), Tail(sg), TRUE) >> :
        k \in Kinds \ {"bool"}, sg \in Segments }

SingleFieldEnvs ==
    { [name \in EnvNames |-> IF name = K THEN v ELSE << >>] : v \in Values }
    \cup { [name \in EnvNames |-> IF name = optional THEN v ELSE << >>] :
             v \in { << "a" >>, << "1" >> } }

\* structs of several fields, over a few field declarations
FieldDecls ==
    { Decl("string", K, << oneof_a_ab >>, TRUE),
      Decl("int", J, << min_1 >>, TRUE),
      Decl("float64", J, << optional >>, TRUE),
      Decl("string", K, << >>, FALSE),
      Decl("bool", K, << >>, TRUE) }

MultiFieldStructs == UNION { [1..n -> FieldDecls] : n \in 2..MaxFields }

MultiFieldEnvs ==
    { [name \in EnvNames |-> IF name = K THEN vk ELSE IF name = J THEN vj ELSE << >>] :
        vk \in { << >>, << "a" >>, << "b" >> },
        vj \in { << >>, << "3" >>, << "0" >>, << "x" >> } }

(***************************************************************************)
(* Load, one step per call it makes in the body of its loop over the       *)
(* struct's fields.                                                        *)
(***************************************************************************)
VARIABLES
    fields,     \* the struct type: one Decl per field
    environ,    \* the process environment
    envConfig,  \* the struct being loaded: one value per field
    i,          \* index of the field in the loop of Load
    pc,         \* next call of the loop body: "parse", "validate", "assign"; "done" once Load returned
    err,        \* the error of the last call; at "done", what Load returned
    envValue,   \* the value parseValueFromEnv returned for field i
    lookups,    \* the os.Getenv calls made so far: field index and key
    evaluated,  \* number of tag options of field i whose switch has run
    last        \* the call made last

vars == << fields, environ, envConfig, i, pc, err, envValue, lookups, evaluated, last >>

Init ==
    /\ \/ fields \in SingleFieldStructs /\ environ \in SingleFieldEnvs
       \/ fields \in MultiFieldStructs /\ environ \in MultiFieldEnvs
    /\ envConfig = [j \in 1..Len(fields) |-> ZeroValue(fields[j].kind)]
    /\ i = 1
    /\ pc = "parse"
    /\ err = NoErr
    /\ envValue = InvalidValue
    /\ lookups = << >>
    /\ evaluated = 0
    /\ last = "none"

\* a bug Load could have: it goes on with the loop after a failed call
nextPc_KeepGoing(e, following) == following

\* `if err != nil { return err }` after each call of the loop body
nextPc(e, following) == IF e # NoErr THEN "done" ELSE following

Looked(keys) == [k \in 1..Len(keys) |-> [field |-> i, key |-> keys[k]]]

LoadParse ==
    /\ pc = "parse"
    /\ LET r == parseValueFromEnv(fields[i], environ) IN
        /\ envValue' = r.val
        /\ err' = r.err
        /\ lookups' = lookups \o Looked(r.looked)
        /\ pc' = nextPc(r.err, "validate")
    /\ evaluated' = 0
    /\ last' = "parse"
    /\ UNCHANGED << fields, environ, envConfig, i >>

LoadValidate ==
    /\ pc = "validate"
    /\ LET r == validateConstraints(fields[i], environ) IN
        /\ err' = r.err
        /\ evaluated' = r.evaluated
        /\ lookups' = lookups \o Looked(r.looked)
        /\ pc' = nextPc(r.err, "assign")
    /\ last' = "validate"
    /\ UNCHANGED << fields, environ, envConfig, i, envValue >>

LoadAssign ==
    /\ pc = "assign"
    /\ LET e == assignFieldValue(fields[i], envValue) IN
        /\ err' = e
        /\ envConfig' = IF e = NoErr THEN [envConfig EXCEPT ![i] = envValue] ELSE envConfig
        /\ i' = IF e = NoErr THEN i + 1 ELSE i
        /\ pc' = nextPc(e, IF i + 1 > Len(fields) THEN "done" ELSE "parse")
    /\ last' = "assign"
    /\ UNCHANGED << fields, environ, envValue, lookups, evaluated >>

\* the outcome of the loop body of Load for one field
loadField(fieldType, env) ==
    LET p == parseValueFromEnv(fieldType, env)
        v == validateConstraints(fieldType, env)
    IN IF p.err # NoErr THEN p.err
       ELSE IF v.err # NoErr THEN v.err
       ELSE assignFieldValue(fieldType, p.val)

Next == LoadParse \/ LoadValidate \/ LoadAssign

Spec == Init /\ [][Next]_vars

TypeOK ==
    /\ pc \in {"parse", "validate", "assign", "done"}
    /\ i \in 1..(Len(fields) + 1)
    /\ Len(envConfig) = Len(fields)

(***************************************************************************)
(* Properties.                                                             *)
(***************************************************************************)
Single == Len(fields) = 1
HasClause(f, c) == \E k \in 1..Len(f.clauses) : f.clauses[k] = c
Raw(f) == Getenv(environ, f.key)
RemoveAt(seq, k) == SubSeq(seq, 1, k - 1) \o SubSeq(seq, k + 1, Len(seq))
Range(seq) == { seq[k] : k \in 1..Len(seq) }
SupportedKinds == {"string", "int", "float64"}

\* C1: a field with an `optional` clause whose environment value is absent
\* is skipped, whatever its kind and its other clauses: Load returns no
\* error, no tag option is evaluated, the field keeps its zero value.
C1_OptionalAbsentIsSkipped ==
    (/\ pc = "done"
     /\ Single
     /\ fields[1].kind \in SupportedKinds
     /\ fields[1].key = K
     /\ HasClause(fields[1], optional)
     /\ Raw(fields[1]) = << >>)
    => /\ err = NoErr
       /\ evaluated = 0
       /\ envConfig[1] = ZeroValue(fields[1].kind)

\* C2: a field without an `optional` clause whose environment value is
\* unset or empty makes Load fail with RequiredValueMissing, whatever its
\* kind, before any tag option is evaluated.
C2_RequiredAbsentIsMissing ==
    (/\ pc = "done"
     /\ Single
     /\ fields[1].kind \in SupportedKinds
     /\ fields[1].key = K
     /\ ~HasClause(fields[1], optional)
     /\ Raw(fields[1]) = << >>)
    => /\ err = RequiredValueMissing
       /\ evaluated = 0

\* C3: Load stops at the first failing field k: the fields before k passed
\* every call and hold their bound value, field k and the fields after it
\* hold their zero value, and no field after k was looked up.
C3_StopsAtFirstFailingField ==
    (pc = "done" /\ err # NoErr)
    => /\ i \in 1..Len(fields)
       /\ \A j \in 1..(i - 1) :
            /\ loadField(fields[j], environ) = NoErr
            /\ envConfig[j] = parseValueFromEnv(fields[j], environ).val
       /\ \A j \in i..Len(fields) : envConfig[j] = ZeroValue(fields[j].kind)
       /\ \A k \in 1..Len(lookups) : lookups[k].field <= i
       /\ \A k \in 1..(Len(lookups) - 1) : lookups[k].field <= lookups[k + 1].field

C3_Witness ==
    /\ pc = "done"
    /\ err # NoErr
    /\ Len(fields) = 3
    /\ i = 2
    /\ envConfig[1] # ZeroValue(fields[1].kind)

\* C4: a value is coerced only once the raw string has passed validation:
\* a coercion failure is reported only for a raw string that satisfies the
\* field's constraints, and an int field with a min clause and a
\* non-numeric value fails with BelowMinimum.
C4_CoercionAfterValidation ==
    /\ (pc = "done" /\ err = CoercionError /\ fields[i].key = K /\ Raw(fields[i]) # << >>)
       => validateConstraints(fields[i], environ).err = NoErr
    /\ (/\ pc = "done"
        /\ Single
        /\ fields[1].kind = "int"
        /\ fields[1].key = K
        /\ fields[1].clauses = << min_1 >>
        /\ Raw(fields[1]) \in GeneratedValues \ { << >> })
       => err = BelowMinimum

\* C5: a clause format=X with X other than URL changes nothing: Load ends
\* as it does on the same tag without that clause.
C5_UnknownFormatIsNoOp ==
    (pc = "done" /\ Single)
    => \A k \in 1..Len(fields[1].clauses) :
          fields[1].clauses[k] = format_x
          => LET f == fields[1]
                 g == Decl(f.kind, f.key, RemoveAt(f.clauses, k), f.settable)
             IN err = loadField(g, environ)

\* C6: a field whose tag is empty or has an empty key is never looked up
\* in the environment and fails with MalformedAnnotation.
C6_NoLookupWithoutKey ==
    /\ \A k \in 1..Len(lookups) : fields[lookups[k].field].key # << >>
    /\ (pc = "done" /\ i <= Len(fields) /\ fields[i].key = << >>)
       => err = MalformedAnnotation

\* C7: for a present value, oneof=a,ab passes exactly the values "a" and
\* "ab"; any other string (case variant, substring, superset) fails with
\* NotInAllowedSet.
C7_OneofIsExactMembership ==
    (/\ last = "validate"
     /\ fields[i].key = K
     /\ HasClause(fields[i], oneof_a_ab)
     /\ Range(fields[i].clauses) \subseteq {oneof_a_ab, optional, unknownClause}
     /\ Raw(fields[i]) # << >>)
    => /\ err = NoErr <=> Raw(fields[i]) \in { << "a" >>, << "a", "b" >> }
       /\ err \in {NoErr, NotInAllowedSet}

C7_Witness ==
    /\ last = "validate"
    /\ fields[i].key = K
    /\ fields[i].clauses = << oneof_a_ab >>
    /\ Raw(fields[i]) \in { << "A" >>, << "a", "a" >>, << "b" >> }
    /\ err = NotInAllowedSet

\* the decimal values of the numeric strings of the model, in thousandths
Decimals ==
    { [s |-> << "0" >>, milli |-> 0], [s |-> << "1" >>, milli |-> 1000],
      [s |-> << "3" >>, milli |-> 3000], [s |-> << "5" >>, milli |-> 5000],
      [s |-> << "5", ".", "0" >>, milli |-> 5000],
      [s |-> << "4", ".", "9", "9", "9" >>, milli |-> 4999],
      [s |-> << "1", "0" >>, milli |-> 10000], [s |-> << "-", "7" >>, milli |-> -7000],
      [s |-> << "0", ".", "5" >>, milli |-> 500] }

NumberAtLeast(raw, milli) == \E d \in Decimals : d.s = raw /\ d.milli >= milli
NumberAtMost(raw, milli) == \E d \in Decimals : d.s = raw /\ d.milli <= milli

\* C8: for a present value, min=N passes exactly the values that are a
\* number >= N and max=N exactly the values that are a number <= N; an int
\* field K;min=1 fails with BelowMinimum on "0" and binds 3 on "3".
C8_MinMaxAreNumericBounds ==
    /\ (last = "validate" /\ fields[i].key = K /\ Raw(fields[i]) # << >>)
       => /\ fields[i].clauses = << min_1 >>
             => (err = NoErr <=> NumberAtLeast(Raw(fields[i]), 1000))
          /\ fields[i].clauses = << min_5 >>
             => (err = NoErr <=> NumberAtLeast(Raw(fields[i]), 5000))
          /\ fields[i].clauses = << max_5 >>
             => (err = NoErr <=> NumberAtMost(Raw(fields[i]), 5000))
    /\ (/\ pc = "done"
        /\ Single
        /\ fields[1].kind = "int"
        /\ fields[1].key = K
        /\ fields[1].clauses = << min_1 >>)
       => /\ Raw(fields[1]) = << "0" >> => err = BelowMinimum
          /\ Raw(fields[1]) = << "3" >> => err = NoErr /\ envConfig[1] = IntValue(3)

\* C9: for a present value the clauses are evaluated in the order of the
\* tag and evaluation stops at the first violated one: the failure returned
\* is that of the earliest clause the value violates, and no clause after
\* it is evaluated.
Violates(clause, raw) == constraintSwitch(clause, raw) \notin {NoErr, ReturnNil}

C9_EarliestViolatedClauseFails ==
    (/\ last = "validate"
     /\ err # NoErr
     /\ fields[i].key = K
     /\ Raw(fields[i]) # << >>)
    => LET cs == fields[i].clauses
           bad == { k \in 1..Len(cs) : Violates(cs[k], Raw(fields[i])) }
       IN /\ bad # {}
          /\ LET first == CHOOSE k \in bad : \A m \in bad : k <= m
             IN /\ err = constraintSwitch(cs[first], Raw(fields[i]))
                /\ evaluated = first + 1

C9_Witness ==
    /\ last = "validate"
    /\ fields[i].key = K
    /\ fields[i].clauses = << min_1, oneof_a_ab >>
    /\ Raw(fields[i]) = << "0" >>
    /\ err = BelowMinimum
    /\ evaluated = 2

\* C10: the first segment of a tag is the key and nothing else: a string
\* field whose later segments do not hold `optional` and whose value is
\* absent fails with RequiredValueMissing, and no constraint failure comes
\* from the first segment.
C10_KeyIsNeverAConstraint ==
    /\ (/\ pc = "done"
        /\ Single
        /\ fields[1].kind = "string"
        /\ fields[1].key # << >>
        /\ ~HasClause(fields[1], optional)
        /\ Raw(fields[1]) = << >>)
       => err = RequiredValueMissing
    /\ (last = "validate" /\ err \notin {NoErr, RequiredValueMissing})
       => evaluated > 1

====
